---------------------------- MODULE Spec2Model ----------------------------
(***************************************************************************)
(* Model of src/bin/jamtwopoolps.rs: the two-pool compartmental model, its *)
(* evaluation by the ODE solver, and the reshaping of the predictions into *)
(* the wide CSV table that is written to predictions.csv and printed.      *)
(*                                                                         *)
(* Number representation.  An f64 is a record [fin, v]: a finite number    *)
(* carries an integer v in a fixed-point unit, a non-finite one carries    *)
(* v = 0 (NaN), 1 (+inf) or -1 (-inf).  Signed zeros are not told apart.   *)
(*   - inside the rate law the unit is 1/1000 (F(6000) is 6.0);            *)
(*   - the solver state x carries SubSteps units per 1/1000, so that the   *)
(*     explicit Euler update x + dx/SubSteps is exact;                     *)
(*   - a prediction value is in units of 1/4000000, so that the "{:.6}"    *)
(*     conversion really rounds;                                           *)
(*   - a time is [q, j]: q multiples of 1e-4 plus j ticks of 2.5e-11,      *)
(*     0 <= j < TicksPerQ, so that the 1e-10 tolerance is Tol = 4 ticks    *)
(*     and the "{:.4}" conversion really rounds.                           *)
(* Additions and subtractions are exact; divisions round to nearest.       *)
(***************************************************************************)
EXTENDS Integers, Sequences, FiniteSets, TLC

VARIABLES
    pc,           \* position in main
    params,       \* the parameter vector handed to estimate_predictions
    x,            \* the solver's state vector (QA, QB, QT)
    dx,           \* the derivative vector the rate law wrote last
    step,         \* Euler steps taken: solver time is step / SubSteps
    nObs,         \* observation times already recorded
    predictions,  \* ode_predictions.get_predictions()
    all_preds,    \* the sorted (time, outeq, prediction) triples
    times,        \* the deduplicated time points
    num_outeqs,   \* number of output equations
    csv_content,  \* the CSV text: a sequence of lines, each a sequence of fields
    rowIdx,       \* rows of the `for time in &times` loop already emitted
    file,         \* content of ./predictions.csv
    console       \* what println! wrote to standard output

vars == <<pc, params, x, dx, step, nObs, predictions, all_preds, times,
          num_outeqs, csv_content, rowIdx, file, console>>

----------------------------------------------------------------------------
(* Bounds of the model *)

\* Euler steps the solver model takes per unit of time.
SubSteps == 10

\* Longest prediction list handed to the reshaping step on its own.
MaxPreds == 3

----------------------------------------------------------------------------
(* Program constants *)

\* .repeat(19, 1.0): 19 further observations, one time unit apart.
NumRepeat == 19

\* .infusion(0.0, 10.0, 0, 7.0): end of the infusion and its rate.
InfusionEnd == 10
InfusionRate == 7

\* (*t - time).abs() < 1e-10, in ticks of 2.5e-11.
Tol == 4

\* "{:.4}": one unit of the last printed digit of a time, in ticks of 2.5e-11.
TicksPerQ == 4000000

----------------------------------------------------------------------------
(* f64 arithmetic *)

F(n) == [fin |-> TRUE, v |-> n]
NaN == [fin |-> FALSE, v |-> 0]
PosInf == [fin |-> FALSE, v |-> 1]
NegInf == [fin |-> FALSE, v |-> -1]

Sign(n) == IF n > 0 THEN 1 ELSE IF n < 0 THEN -1 ELSE 0

Abs(n) == IF n < 0 THEN -n ELSE n

\* a / b rounded to the nearest integer (halves away from zero), b # 0.
DivRound(a, b) ==
    Sign(a) * Sign(b) * ((2 * Abs(a) + Abs(b)) \div (2 * Abs(b)))

Inf(s) == IF s < 0 THEN NegInf ELSE PosInf

FNeg(a) == IF a.fin THEN F(-a.v) ELSE IF a = NaN THEN NaN ELSE Inf(-a.v)

FAdd(a, b) ==
    IF a = NaN \/ b = NaN THEN NaN
    ELSE IF a.fin /\ b.fin THEN F(a.v + b.v)
    ELSE IF a.fin THEN b
    ELSE IF b.fin THEN a
    ELSE IF a = b THEN a ELSE NaN

FSub(a, b) == FAdd(a, FNeg(b))

\* a / b of two numbers in units of 1/1000, the quotient in the same unit.
FDiv(a, b) ==
    IF a = NaN \/ b = NaN THEN NaN
    ELSE IF ~a.fin /\ ~b.fin THEN NaN
    ELSE IF ~a.fin THEN Inf(a.v * (IF b.v < 0 THEN -1 ELSE 1))
    ELSE IF ~b.fin THEN F(0)
    ELSE IF b.v = 0 THEN (IF a.v = 0 THEN NaN ELSE Inf(a.v))
    ELSE F(DivRound(a.v * 1000, b.v))

----------------------------------------------------------------------------
(* The model definition handed to equation::ODE::new *)

\* let params = vec![20.0, 25.0, 18.0, 13.0, 8.0, 0.32, 0.36, 0.31];
RefParams ==
    <<F(20000), F(25000), F(18000), F(13000), F(8000), F(320), F(360), F(310)>>

\* The parameter vectors the model is run with: the compiled-in one, and the
\* same vector with a pool size of zero (the closures take any p).
ParamChoices ==
    { RefParams,
      [RefParams EXCEPT ![1] = F(0)],
      [RefParams EXCEPT ![2] = F(0)] }

\* let con_a = qa / sa;  let fab = vab / (1.0 + (kab / con_a));
Flux(vmax, k, q, s) ==
    LET con == FDiv(q, s)
    IN  FDiv(vmax, FAdd(F(1000), FDiv(k, con)))

\* The rate law with the total pool integrating another balance than QA + QB:
\* the flux from B to A taken out of it as well.
OdeOtherBalance(xv, p, t, rateiv) ==
    LET fab == Flux(p[3], p[6], xv[1], p[1])
        fba == Flux(p[4], p[7], xv[2], p[2])
        fbo == Flux(p[5], p[8], xv[2], p[2])
    IN  << FSub(FAdd(rateiv[1], fba), fab),
           FSub(FSub(fab, fba), fbo),
           FSub(FSub(rateiv[1], fbo), fba) >>

\* The ODE closure |x, p, _t, dx, rateiv, _cov|: the dx it writes.
Ode(xv, p, t, rateiv) ==
    LET sa == p[1]  sb == p[2]  vab == p[3]  vba == p[4]  vbo == p[5]
        kab == p[6]  kba == p[7]  kbo == p[8]
        qa == xv[1]
        qb == xv[2]
        fab == Flux(vab, kab, qa, sa)
        fba == Flux(vba, kba, qb, sb)
        fbo == Flux(vbo, kbo, qb, sb)
    IN  << FSub(FAdd(rateiv[1], fba), fab),
           FSub(FSub(fab, fba), fbo),
           FSub(rateiv[1], fbo) >>

\* An init closure that forgets the total pool and leaves what x[2] held.
InitFnNoTotal(p, t, xv) == << F(6000), F(9000), xv[3] >>

\* The init closure |_p, _t, _cov, x|: the x it leaves.
InitFn(p, t, xv) == << F(6000), F(9000), F(15000) >>

\* The observation closure |x, _p, _t, _cov, y|: the y it writes.
OutFn(xv, p, t) == << xv[1], xv[2], xv[3] >>

----------------------------------------------------------------------------
(* The solver behind ode.estimate_predictions(&subject, &params) *)

\* A time of k whole time units.
TimeOf(k) == [q |-> k * 10000, j |-> 0]

\* The state vector as the rate law reads it, in units of 1/1000.
View(xv) ==
    [i \in 1..3 |-> IF xv[i].fin THEN F(DivRound(xv[i].v, SubSteps)) ELSE xv[i]]

\* A vector in units of 1/1000 as the solver carries it.
Carry(xv) ==
    [i \in 1..3 |-> IF xv[i].fin THEN F(xv[i].v * SubSteps) ELSE xv[i]]

\* A component of the solver's state as a prediction value (units of 1/4000000).
PredValue(f) ==
    IF f.fin
    THEN F((f.v \div SubSteps) * 4000 + DivRound((f.v % SubSteps) * 4000, SubSteps))
    ELSE f

\* An infusion that is switched off half way.
RateivHalf(n) ==
    << IF 2 * n < InfusionEnd * SubSteps THEN F(InfusionRate * 1000) ELSE F(0) >>

\* rateiv at solver step n: the infusion of .infusion(0.0, 10.0, 0, 7.0).
Rateiv(n) ==
    << IF n < InfusionEnd * SubSteps THEN F(InfusionRate * 1000) ELSE F(0) >>

\* The Prediction records of one observation time, in the subject's event order.
Observations(k, xv, p) ==
    LET y == OutFn(xv, p, k)
    IN  [c \in 1..3 |-> [time |-> TimeOf(k), outeq |-> c - 1, pred |-> PredValue(y[c])]]

\* The solver sets the initial state through the init closure.
CallInit ==
    /\ pc = "start"
    /\ x' = Carry(InitFn(params, 0, View(x)))
    /\ pc' = "solve"
    /\ UNCHANGED <<params, dx, step, nObs, predictions, all_preds, times,
                   num_outeqs, csv_content, rowIdx, file, console>>

\* The solver reaches a scheduled observation time and records its predictions.
Observe ==
    /\ pc = "solve"
    /\ nObs <= NumRepeat
    /\ step = nObs * SubSteps
    /\ predictions' = predictions \o Observations(nObs, x, params)
    /\ nObs' = nObs + 1
    /\ UNCHANGED <<pc, params, x, dx, step, all_preds, times, num_outeqs,
                   csv_content, rowIdx, file, console>>

\* One explicit Euler step of length 1/SubSteps.
Step ==
    /\ pc = "solve"
    /\ step < nObs * SubSteps
    /\ step < NumRepeat * SubSteps
    /\ dx' = Ode(View(x), params, step, Rateiv(step))
    /\ x' = [i \in 1..3 |-> FAdd(x[i], dx'[i])]
    /\ step' = step + 1
    /\ UNCHANGED <<pc, params, nObs, predictions, all_preds, times, num_outeqs,
                   csv_content, rowIdx, file, console>>

\* estimate_predictions returns; main goes on to the reshaping.
Return ==
    /\ pc = "solve"
    /\ nObs = NumRepeat + 1
    /\ pc' = "collect"
    /\ UNCHANGED <<params, x, dx, step, nObs, predictions, all_preds, times,
                   num_outeqs, csv_content, rowIdx, file, console>>

----------------------------------------------------------------------------
(* Times, and the two number-to-text conversions *)

\* a.0.partial_cmp(&b.0) on finite times: Less.
TimeLt(a, b) == a.q < b.q \/ (a.q = b.q /\ a.j < b.j)

\* (*t - time).abs() < 1e-10
Close(a, b) ==
    /\ Abs(a.q - b.q) <= 1
    /\ Abs((a.q - b.q) * TicksPerQ + (a.j - b.j)) < Tol

RECURSIVE Digits(_, _)
\* The last w decimal digits of n, with leading zeros.
Digits(n, w) ==
    IF w = 0 THEN "" ELSE Digits(n \div 10, w - 1) \o ToString(n % 10)

\* n / d rounded to the nearest integer, a half to the even one (n >= 0, d > 0).
RoundHalfEven(n, d) ==
    LET m == n \div d
        r == n % d
    IN  IF 2 * r < d THEN m
        ELSE IF 2 * r > d THEN m + 1
        ELSE IF m % 2 = 0 THEN m ELSE m + 1

\* format!("{:.4}", time)
Fmt4(t) ==
    LET r == IF 2 * t.j < TicksPerQ THEN t.q
             ELSE IF 2 * t.j > TicksPerQ THEN t.q + 1
             ELSE IF t.q % 2 = 0 THEN t.q ELSE t.q + 1
    IN  ToString(r \div 10000) \o "." \o Digits(r % 10000, 4)

\* format!("{:.6}", pred_val)
Fmt6(f) ==
    IF ~f.fin THEN (IF f = NaN THEN "NaN" ELSE IF f = PosInf THEN "inf" ELSE "-inf")
    ELSE LET r == RoundHalfEven(Abs(f.v), 4)
         IN  (IF f.v < 0 THEN "-" ELSE "")
                 \o ToString(r \div 1000000) \o "." \o Digits(r % 1000000, 6)

----------------------------------------------------------------------------
(* Reshaping the predictions into the CSV table *)

\* The comparator of all_preds.sort_by: by time, then by outeq.
PredLess(a, b) ==
    \/ TimeLt(a.time, b.time)
    \/ (a.time = b.time /\ a.outeq < b.outeq)

\* Where all_preds.sort_by(..), a stable sort, puts element i of s: behind the
\* elements that compare less, and behind the earlier ones that compare equal.
SortedPos(s, i) ==
    Cardinality({ k \in 1..Len(s) :
                    \/ PredLess(s[k], s[i])
                    \/ (~PredLess(s[i], s[k]) /\ k < i) }) + 1

\* The sort left out: the predictions stay in the order they came in.
SortPredsNone(s) == s

\* all_preds.sort_by(..)
SortPreds(s) ==
    [n \in 1..Len(s) |-> s[CHOOSE i \in 1..Len(s) : SortedPos(s, i) = n]]

\* The dedup left out.
DedupNone(s) == s

\* times.dedup(): of each run of equal consecutive elements, the first is kept.
Dedup(s) ==
    LET kept == SelectSeq([i \in 1..Len(s) |-> i],
                          LAMBDA i : i = 1 \/ s[i] # s[i - 1])
    IN  [n \in 1..Len(kept) |-> s[kept[n]]]

\* all_preds.iter().map(|(t, _, _)| *t).collect()
TimesOf(s) == [i \in 1..Len(s) |-> s[i].time]

\* The keys of the HashMap `groups`.
GroupKeys(preds) == { preds[i].outeq : i \in 1..Len(preds) }

\* groups.keys().max().map_or(0, |&m| m + 1)
NumOuteqs(preds) ==
    LET keys == GroupKeys(preds)
    IN  IF keys = {} THEN 0
        ELSE (CHOOSE m \in keys : \A k \in keys : k <= m) + 1

\* csv_content.push_str("Time,QA,QB,QT\n")
HeaderRow == <<"Time", "QA", "QB", "QT">>

\* all_preds.iter().filter(|(t, _, _)| (*t - time).abs() < 1e-10).collect()
PredsAtTime(sorted, time) == SelectSeq(sorted, LAMBDA p : Close(p.time, time))

\* preds_at_time.iter().find(|(_, o, _)| *o == outeq): the index found.
FirstFor(at, outeq) ==
    CHOOSE i \in 1..Len(at) :
        /\ at[i].outeq = outeq
        /\ \A k \in 1..(i - 1) : at[k].outeq # outeq

\* A missing prediction printed as zero.
CellZeroFill(at, outeq) ==
    IF \E i \in 1..Len(at) : at[i].outeq = outeq
    THEN Fmt6(at[FirstFor(at, outeq)].pred)
    ELSE Fmt6(F(0))

\* The field of one outeq: the first prediction found for it, or nothing.
Cell(at, outeq) ==
    IF \E i \in 1..Len(at) : at[i].outeq = outeq
    THEN Fmt6(at[FirstFor(at, outeq)].pred)
    ELSE ""

\* One data row: the time, then one field per outeq in 0..num_outeqs.
Row(time, sorted, n) ==
    LET at == PredsAtTime(sorted, time)
    IN  <<Fmt4(time)>> \o [c \in 1..n |-> Cell(at, c - 1)]

\* The whole table computed from a prediction list.
CsvOf(preds) ==
    LET sorted == SortPreds(preds)
        ts == Dedup(TimesOf(sorted))
        n == NumOuteqs(preds)
    IN  <<HeaderRow>> \o [r \in 1..Len(ts) |-> Row(ts[r], sorted, n)]

\* Collect the predictions and sort them by time, then by outeq.
Collect ==
    /\ pc = "collect"
    /\ all_preds' = SortPreds(predictions)
    /\ pc' = "times"
    /\ UNCHANGED <<params, x, dx, step, nObs, predictions, times, num_outeqs,
                   csv_content, rowIdx, file, console>>

\* The unique time points and the number of output equations.
Times ==
    /\ pc = "times"
    /\ times' = Dedup(TimesOf(all_preds))
    /\ num_outeqs' = NumOuteqs(predictions)
    /\ pc' = "header"
    /\ UNCHANGED <<params, x, dx, step, nObs, predictions, all_preds,
                   csv_content, rowIdx, file, console>>

\* The header row.
Header ==
    /\ pc = "header"
    /\ csv_content' = <<HeaderRow>>
    /\ rowIdx' = 0
    /\ pc' = "rows"
    /\ UNCHANGED <<params, x, dx, step, nObs, predictions, all_preds, times,
                   num_outeqs, file, console>>

\* One turn of `for time in &times`.
DataRow ==
    /\ pc = "rows"
    /\ rowIdx < Len(times)
    /\ csv_content' = Append(csv_content, Row(times[rowIdx + 1], all_preds, num_outeqs))
    /\ rowIdx' = rowIdx + 1
    /\ UNCHANGED <<pc, params, x, dx, step, nObs, predictions, all_preds, times,
                   num_outeqs, file, console>>

----------------------------------------------------------------------------
(* Writing the file and printing *)

NoFile == [state |-> "absent", lines |-> <<>>]

\* fs::write("./predictions.csv", &csv_content) succeeds.
WriteOk ==
    /\ pc = "rows"
    /\ rowIdx = Len(times)
    /\ file' = [state |-> "written", lines |-> csv_content]
    /\ pc' = "banner"
    /\ UNCHANGED <<params, x, dx, step, nObs, predictions, all_preds, times,
                   num_outeqs, csv_content, rowIdx, console>>

\* A failed write whose error is dropped instead of unwrapped: main goes on.
WriteFailIgnored ==
    /\ pc = "rows"
    /\ rowIdx = Len(times)
    /\ file' \in { file, [state |-> "partial", lines |-> <<>>] }
    /\ pc' = "banner"
    /\ UNCHANGED <<params, x, dx, step, nObs, predictions, all_preds, times,
                   num_outeqs, csv_content, rowIdx, console>>

\* fs::write fails and .expect("Failed to write CSV file") panics; the file is
\* left as it was, or created and cut short (how short is not recorded).
WriteFail ==
    /\ pc = "rows"
    /\ rowIdx = Len(times)
    /\ file' \in { file, [state |-> "partial", lines |-> <<>>] }
    /\ pc' = "panicked"
    /\ UNCHANGED <<params, x, dx, step, nObs, predictions, all_preds, times,
                   num_outeqs, csv_content, rowIdx, console>>

\* println!("\nPredictions saved to predictions.csv")
Banner ==
    /\ pc = "banner"
    /\ console' = Append(console, [text |-> "\nPredictions saved to predictions.csv",
                                   lines |-> <<>>])
    /\ pc' = "print"
    /\ UNCHANGED <<params, x, dx, step, nObs, predictions, all_preds, times,
                   num_outeqs, csv_content, rowIdx, file>>

\* println!("\nCSV Output:\n{}", csv_content)
PrintCsv ==
    /\ pc = "print"
    /\ console' = Append(console, [text |-> "\nCSV Output:\n", lines |-> csv_content])
    /\ pc' = "done"
    /\ UNCHANGED <<params, x, dx, step, nObs, predictions, all_preds, times,
                   num_outeqs, csv_content, rowIdx, file>>

----------------------------------------------------------------------------
(* Specifications *)

Zero3 == << F(0), F(0), F(0) >>

\* What the solver's state vector may hold before the init closure runs.
StaleStates == { Zero3, << F(10000), F(-20000), F(30000) >>, << NaN, PosInf, F(0) >> }

\* The whole of main.
Init ==
    /\ pc = "start"
    /\ params \in ParamChoices
    /\ x \in StaleStates
    /\ dx = Zero3
    /\ step = 0
    /\ nObs = 0
    /\ predictions = <<>>
    /\ all_preds = <<>>
    /\ times = <<>>
    /\ num_outeqs = 0
    /\ csv_content = <<>>
    /\ rowIdx = 0
    /\ file = NoFile
    /\ console = <<>>

Reshape == Collect \/ Times \/ Header \/ DataRow

Output == WriteOk \/ WriteFail \/ Banner \/ PrintCsv

Next == CallInit \/ Observe \/ Step \/ Return \/ Reshape \/ Output

Spec == Init /\ [][Next]_vars

\* The reshaping and output steps on any list of Prediction records.
\* Three times around 1.00005, 5e-11 apart: the outer two are 1e-10 apart.
TimeChoices ==
    { [q |-> 10000, j |-> 1999997], [q |-> 10000, j |-> 1999999],
      [q |-> 10000, j |-> 2000001] }

OuteqChoices == {0, 2}

\* 0.0, 0.00000025 and 9.00000075: the first two print alike.
ValueChoices == { F(0), F(1), F(36000003) }

\* Channel 0 with each of the values, channel 2 with the last one.
PredChoices ==
    { p \in [time : TimeChoices, outeq : OuteqChoices, pred : ValueChoices] :
          p.outeq = 0 \/ p.pred = F(36000003) }

PredLists == UNION { [1..n -> PredChoices] : n \in 0..MaxPreds }

InitReshape ==
    /\ pc = "collect"
    /\ params = RefParams
    /\ x = Zero3
    /\ dx = Zero3
    /\ step = 0
    /\ nObs = 0
    /\ predictions \in PredLists
    /\ all_preds = <<>>
    /\ times = <<>>
    /\ num_outeqs = 0
    /\ csv_content = <<>>
    /\ rowIdx = 0
    /\ file = NoFile
    /\ console = <<>>

NextReshape == Reshape \/ Output

SpecReshape == InitReshape /\ [][NextReshape]_vars

----------------------------------------------------------------------------
(* Properties *)

\* The row loop has finished.
RowsBuilt ==
    \/ pc \in {"banner", "print", "done", "panicked"}
    \/ (pc = "rows" /\ rowIdx = Len(times))

\* The row loop has just finished: the table is complete.
RowsComplete == pc = "rows" /\ rowIdx = Len(times)

\* The table has been started (the header is in csv_content).
TableStarted == pc \in {"rows", "banner", "print", "done", "panicked"}

\* Number of channels of a prediction list: its largest channel index plus one.
ChannelCount(preds) ==
    IF preds = <<>> THEN 0
    ELSE LET top == CHOOSE i \in 1..Len(preds) :
                        \A k \in 1..Len(preds) : preds[k].outeq <= preds[i].outeq
         IN  preds[top].outeq + 1

\* The prediction list reordered by a permutation f of its indices.
Permuted(preds, f) == [i \in 1..Len(preds) |-> preds[f[i]]]

\* C1: once the rows are built there is one data row per time point, and no two
\* rows belong to times less than 1e-10 apart: records whose times are within the
\* tolerance share a single row.
C1_CloseTimesShareOneRow ==
    RowsBuilt =>
        /\ Len(csv_content) = Len(times) + 1
        /\ \A i, k \in 1..Len(times) : i # k => ~Close(times[i], times[k])

\* C2: the header row has one column for the time and one per channel, N + 1 for
\* a prediction list whose largest channel index is N - 1, as every data row has.
C2_HeaderHasOneColumnPerChannel ==
    TableStarted =>
        /\ Len(csv_content[1]) = ChannelCount(predictions) + 1
        /\ \A r \in 2..Len(csv_content) : Len(csv_content[r]) = Len(csv_content[1])

\* C3: in every emitted row, of time t, and for every channel c below the channel
\* count, the field is empty exactly when no record of channel c has a time within
\* 1e-10 of t, and otherwise it is the printed value of such a record; a missing
\* pair is never printed as a number.
C3_CellEmptyIffNoRecord ==
    TableStarted =>
        \A r \in 1..(Len(csv_content) - 1) :
            /\ Len(csv_content[r + 1]) = ChannelCount(predictions) + 1
            /\ \A c \in 0..(ChannelCount(predictions) - 1) :
                   LET cell == csv_content[r + 1][c + 2]
                       matching == { i \in 1..Len(predictions) :
                                       /\ predictions[i].outeq = c
                                       /\ Close(predictions[i].time, times[r]) }
                   IN  /\ (cell = "") <=> (matching = {})
                       /\ matching # {} =>
                              \E i \in matching : cell = Fmt6(predictions[i].pred)

\* C3 witness: a finished table of three channels in which one row has an empty
\* field for channel 0, which has a record at a time 1e-10 away, and another row
\* has its channel 0 field filled, as "0.000000", from a record of a close time.
C3_Witness ==
    /\ pc = "done"
    /\ num_outeqs = 3
    /\ \E r1, r2 \in 1..Len(times) :
           /\ csv_content[r1 + 1][2] = ""
           /\ csv_content[r2 + 1][2] = "0.000000"
           /\ \A i \in 1..Len(predictions) :
                  predictions[i].outeq = 0 => predictions[i].time # times[r2]

\* C4: whatever the order of the input, the rows are in strictly ascending order
\* of their times, there is one row per distinct time of the input and no time
\* has two rows; row r prints time r.
C4_RowsAscendingOnePerTime ==
    TableStarted =>
        /\ \A i, k \in 1..Len(times) : i < k => TimeLt(times[i], times[k])
        /\ { times[i] : i \in 1..Len(times) }
               = { predictions[i].time : i \in 1..Len(predictions) }
        /\ Len(csv_content) = rowIdx + 1
        /\ \A r \in 1..rowIdx : csv_content[r + 1][1] = Fmt4(times[r])
        /\ RowsBuilt => rowIdx = Len(times)

\* C4 witness: a finished table of two rows built from three records that came
\* in descending order of time, two of them at the same time.
C4_Witness ==
    /\ pc = "done"
    /\ Len(predictions) = 3
    /\ Len(times) = 2
    /\ TimeLt(predictions[2].time, predictions[1].time)
    /\ predictions[3].time = predictions[2].time

\* C5: a parameter vector with SA <= 0 or SB <= 0 is rejected before the solver is
\* invoked: the rate law is never evaluated with it and no CSV is produced.
C5_BadPoolSizeRejected ==
    (params[1].v <= 0 \/ params[2].v <= 0) =>
        /\ pc = "start"
        /\ step = 0
        /\ csv_content = <<>>
        /\ file = NoFile

\* C6: the steps run in the order integrate, reshape, write, banner, CSV: the
\* table is built only from the complete predictions, the file is written only
\* from the complete table, nothing is printed unless the file was written with
\* the whole table, a failed write prints nothing, and the CSV printed is the CSV
\* written.
C6_StrictSequenceAndFatalWrite ==
    /\ pc \in {"start", "solve"} => all_preds = <<>> /\ csv_content = <<>>
    /\ all_preds # <<>> => Len(predictions) = 3 * (NumRepeat + 1)
    /\ file # NoFile => RowsBuilt /\ Len(csv_content) = Len(times) + 1
    /\ pc \in {"banner", "print", "done"} =>
           file = [state |-> "written", lines |-> csv_content]
    /\ pc = "panicked" => console = <<>> /\ file.state # "written"
    /\ pc \notin {"print", "done"} => console = <<>>
    /\ pc = "print" =>
           console = << [text |-> "\nPredictions saved to predictions.csv",
                         lines |-> <<>>] >>
    /\ pc = "done" =>
           console = << [text |-> "\nPredictions saved to predictions.csv",
                         lines |-> <<>>],
                        [text |-> "\nCSV Output:\n", lines |-> file.lines] >>

\* C6 witness: the run has ended with the table of all observation times in the
\* file and on the console.
C6_Witness ==
    /\ pc = "done"
    /\ Len(console) = 2
    /\ console[2].lines = file.lines
    /\ Len(file.lines) = NumRepeat + 2

\* C7: whatever the parameter vector and whatever the state held before, once the
\* init closure has run the state is exactly (6, 9, 15); each reported channel is
\* the state component of the same index; the observations at the initial time
\* are exactly (6, 9, 15) and print as 0.0000,6.000000,9.000000,15.000000.
C7_InitialStateAndIdentityOutput ==
    /\ (pc = "solve" /\ step = 0) =>
           x = << F(6000 * SubSteps), F(9000 * SubSteps), F(15000 * SubSteps) >>
    /\ (pc = "solve" /\ nObs >= 1 /\ step = (nObs - 1) * SubSteps) =>
           \A c \in 1..3 :
               predictions[3 * (nObs - 1) + c] =
                   [time |-> TimeOf(nObs - 1), outeq |-> c - 1, pred |-> PredValue(x[c])]
    /\ Len(predictions) >= 3 =>
           /\ predictions[1] = [time |-> TimeOf(0), outeq |-> 0, pred |-> F(24000000)]
           /\ predictions[2] = [time |-> TimeOf(0), outeq |-> 1, pred |-> F(36000000)]
           /\ predictions[3] = [time |-> TimeOf(0), outeq |-> 2, pred |-> F(60000000)]
    /\ Len(csv_content) >= 2 =>
           csv_content[2] = <<"0.0000", "6.000000", "9.000000", "15.000000">>

\* C7 witness: the first data row has been emitted in a run with a parameter
\* vector other than the compiled-in one.
C7_Witness ==
    /\ params # RefParams
    /\ pc = "rows"
    /\ rowIdx = 1

\* C8 as amended: the total pool is the same balance as QA + QB: the rate law
\* gives dQT = dQA + dQB at every state, the initial state has QT = QA + QB, and
\* so QT = QA + QB holds at every state of the trajectory (while it is finite).
C8_TotalIsSumOfPools ==
    pc # "start" =>
        /\ (\A i \in 1..3 : dx[i].fin) => dx[3].v = dx[1].v + dx[2].v
        /\ (\A i \in 1..3 : x[i].fin) => x[3].v = x[1].v + x[2].v

\* C8 witness: the end of the infusion with the compiled-in parameters, the
\* pools having moved away from their initial contents.
C8_Witness ==
    /\ pc = "solve"
    /\ params = RefParams
    /\ step = InfusionEnd * SubSteps
    /\ x[1].v > 2 * 6000 * SubSteps
    /\ x[2].v > 9000 * SubSteps

\* C8 as claimed: by the end of the integration the trajectory has passed through
\* an observed state in which QT differs from QA + QB.
C8_TotalDiffersFromSum ==
    (pc = "collect" /\ params = RefParams) =>
        \E k \in 0..NumRepeat :
            predictions[3 * k + 3].pred.v #
                predictions[3 * k + 1].pred.v + predictions[3 * k + 2].pred.v

\* C9 as amended: if records that compare equal in time and channel print the
\* same time and the same value, every permutation of the prediction list gives
\* the same CSV text.
C9_OrderIndependentWhenDuplicatesAgree ==
    (RowsComplete /\ \A i, k \in 1..Len(predictions) :
                      (/\ ~PredLess(predictions[i], predictions[k])
                       /\ ~PredLess(predictions[k], predictions[i]))
                          => /\ Fmt4(predictions[i].time) = Fmt4(predictions[k].time)
                             /\ Fmt6(predictions[i].pred) = Fmt6(predictions[k].pred))
        => \A f \in Permutations(1..Len(predictions)) :
               CsvOf(Permuted(predictions, f)) = csv_content

\* C9 witness: a complete table from three records given in descending order of
\* time, two with the same time and channel and different values that print alike.
C9_Witness ==
    /\ RowsComplete
    /\ Len(predictions) = 3
    /\ TimeLt(predictions[2].time, predictions[1].time)
    /\ predictions[3].time = predictions[2].time
    /\ predictions[3].outeq = predictions[2].outeq
    /\ predictions[3].pred # predictions[2].pred
    /\ Fmt6(predictions[3].pred) = Fmt6(predictions[2].pred)

\* C9 as claimed: every permutation of the prediction list, also of one that
\* holds several records with the same time and channel and different values,
\* gives the same CSV text.
C9_OrderIndependent ==
    RowsComplete =>
        \A f \in Permutations(1..Len(predictions)) :
            CsvOf(Permuted(predictions, f)) = csv_content

\* C10: with the compiled-in parameters, at every state reached while t is in
\* [0, 10] the infusion exceeds the outflow F_BO (QB is below the level at which
\* F_BO reaches 7.0), every derivative dQT evaluated there is positive, and the
\* QT values reported at the observation times 0, 1, ..., 10 strictly increase.
C10_TotalIncreasesDuringInfusion ==
    params = RefParams =>
        /\ (pc = "solve" /\ step <= InfusionEnd * SubSteps) =>
               LET fbo == Flux(params[5], params[8], View(x)[2], params[2])
               IN  fbo.fin /\ fbo.v < InfusionRate * 1000
        /\ (1 <= step /\ step <= InfusionEnd * SubSteps) => dx[3].fin /\ dx[3].v > 0
        /\ \A i, k \in 1..Len(predictions) :
               (/\ predictions[i].outeq = 2
                /\ predictions[k].outeq = 2
                /\ TimeLt(predictions[i].time, predictions[k].time)
                /\ ~TimeLt(TimeOf(InfusionEnd), predictions[k].time))
                   => predictions[i].pred.v < predictions[k].pred.v

\* C10 witness: the integration has ended and QT was reported at time 10.
C10_Witness ==
    /\ params = RefParams
    /\ pc = "collect"
    /\ \E i \in 1..Len(predictions) :
           /\ predictions[i].outeq = 2
           /\ predictions[i].time = TimeOf(InfusionEnd)
           /\ predictions[i].pred.v > 2 * 60000000

============================================================================
